---- MODULE Spec2Model ----
(***************************************************************************)
(* Model of train_federated (examples/mnist/main_nn.py): a coordinator     *)
(* that creates one edge-device process per dataset class, runs            *)
(* num_global_epochs rounds of select / dispatch / collect / aggregate     *)
(* over duplex pipes, and terminates every device at the end.              *)
(*                                                                         *)
(* models.federated (EdgeDevice, EdgeDeviceResult, federated_averaging)    *)
(* and utils.constants are not part of the sources at hand: the device     *)
(* loop and the averaging follow the written specification.                *)
(*                                                                         *)
(* Model parameters and losses are rationals <<numerator, denominator>>    *)
(* in lowest terms, so that the mean is exact.                             *)
(***************************************************************************)
EXTENDS Integers, Sequences, FiniteSets, TLC

VARIABLES
    num_users,                   \* len(dataset.classes)
    MAX_USERS_IN_ROUND,          \* constants.MAX_USERS_IN_ROUND
    num_global_epochs,           \* settings.num_global_epochs
    trainer,                     \* the devices' trainer: "sgd", or "noop" (model unchanged, loss 0)
    blocking,                    \* a message exceeds the pipe's buffer: send() returns only
                                 \* once the peer receives
    pc,                          \* position of the coordinator in train_federated
    err,                         \* the exception train_federated exited with, or "none"
    device_connections,          \* keys of the dict, in insertion order
    i_epoch,                     \* rounds completed so far (loop index)
    model,                       \* the coordinator's current model
    loss_avg,                    \* the mean loss of the last completed round
    users_in_round_ids,          \* the array np.random.choice returned
    device_connections_in_round, \* keys of the per-round dict, in insertion order
    n_dispatched,                \* position of the dispatch loop
    local_models,                \* dict as a sequence of [key, value] items
    local_losses,                \* dict as a sequence of [key, value] items
    handles_ready,               \* what wait(handles) returned, not yet received from
    n_terminated,                \* position of the termination loop
    to_device,                   \* per device: messages sent by the coordinator, unread
    to_server,                   \* per device: messages sent by the device, unread
    status,                      \* per device: "Idle", "Running" or "Stopped"
    device_dataset,              \* per device: <<>> or <<the partition it was created with>>
    training,                    \* per device: <<>> or <<the message it is training on>>
    sigterm,                     \* per device: terminate() was called on its process
    round_results,               \* history: per device, the results it sent in this round
    models_received              \* history: per device, the models it received in this round

vars == <<num_users, MAX_USERS_IN_ROUND, num_global_epochs, trainer, blocking, pc, err,
          device_connections, i_epoch, model, loss_avg, users_in_round_ids,
          device_connections_in_round, n_dispatched, local_models, local_losses,
          handles_ready, n_terminated, to_device, to_server, status, training,
          sigterm, round_results, models_received, device_dataset>>

coordVars == <<pc, err, device_connections, i_epoch, model, loss_avg,
               users_in_round_ids, device_connections_in_round, n_dispatched,
               local_models, local_losses, handles_ready, n_terminated>>

settingsVars == <<num_users, MAX_USERS_IN_ROUND, num_global_epochs, trainer, blocking>>

(***************************************************************************)
(* Bounds of the model.                                                    *)
(***************************************************************************)
MaxUsers == 3

MaxEpochs == 2

(***************************************************************************)
(* Rational arithmetic.                                                    *)
(***************************************************************************)
Abs(n) == IF n < 0 THEN -n ELSE n

RECURSIVE GCD(_, _)
GCD(a, b) == IF b = 0 THEN a ELSE GCD(b, a % b)

Rat(n, d) ==
    LET g == GCD(Abs(n), d)
    IN  <<n \div g, d \div g>>

RatOfInt(n) == <<n, 1>>

RatAdd(x, y) == Rat(x[1] * y[2] + y[1] * x[2], x[2] * y[2])

RatDivInt(x, k) == Rat(x[1], x[2] * k)

RECURSIVE RatSum(_)
\* The sum of the tail is bound to a value before it is added to the head.
RatSum(s) ==
    IF s = <<>> THEN RatOfInt(0)
    ELSE CHOOSE total \in {RatAdd(Head(s), rest) : rest \in {RatSum(Tail(s))}} : TRUE

(***************************************************************************)
(* Python dicts, kept as sequences of items in insertion order.            *)
(***************************************************************************)
Range(s) == {s[i] : i \in 1..Len(s)}

Keys(d) == {d[i].key : i \in 1..Len(d)}

Values(d) == [i \in 1..Len(d) |-> d[i].value]

Get(d, k) == d[CHOOSE i \in 1..Len(d) : d[i].key = k].value

DictSet(d, k, v) ==
    IF k \in Keys(d)
    THEN [i \in 1..Len(d) |-> IF d[i].key = k THEN [key |-> k, value |-> v] ELSE d[i]]
    ELSE Append(d, [key |-> k, value |-> v])

RECURSIVE KeysInOrder(_)
KeysInOrder(ids) ==
    IF ids = <<>> THEN <<>>
    ELSE LET rest == KeysInOrder(SubSeq(ids, 1, Len(ids) - 1))
             last == ids[Len(ids)]
         IN  IF last \in Range(rest) THEN rest ELSE Append(rest, last)

(***************************************************************************)
(* The dataset's classes and the settings of a run.                        *)
(***************************************************************************)
Users == 0..(num_users - 1)

ClassName(i) == <<"class", i>>

classes == [i \in 1..num_users |-> ClassName(i - 1)]

class_to_idx == [name \in Range(classes) |-> CHOOSE i \in Users : ClassName(i) = name]

idx_to_class == [i \in Users |-> ClassName(i)]

BaseModel == RatOfInt(1)

(***************************************************************************)
(* np.random.choice(range(n), size, replace=False): an array of size       *)
(* pairwise distinct elements of range(n); ValueError when size exceeds n  *)
(* or is negative.                                                         *)
(***************************************************************************)
ClampedSampleSize(n, k) == IF k > n THEN n ELSE k

SampleSize(n, k) == k

ChoiceFails(n, size) == size > n \/ size < 0

ChoiceWithReplacement(n, size) == [1..size -> 0..(n - 1)]

Choice(n, size) ==
    {s \in [1..size -> 0..(n - 1)] : \A i, j \in 1..size : i # j => s[i] # s[j]}

(***************************************************************************)
(* The edge device's trainer and the aggregator.                           *)
(***************************************************************************)
Train(m, w) ==
    IF trainer = "noop"
    THEN [model |-> m, loss |-> RatOfInt(0)]
    ELSE [model |-> RatAdd(m, RatOfInt(w + 1)), loss |-> RatOfInt(w + 1)]

federated_averaging(models) == RatDivInt(RatSum(models), Len(models))

MeanLoss(losses) == RatDivInt(RatSum(Values(losses)), Len(losses))

(***************************************************************************)
(* Pieces of the round loop.                                               *)
(***************************************************************************)
SetupTargetsButLast == SubSeq(classes, 1, Len(classes) - 1)

SetupTargets == classes

PartitionOf(device_id) == device_id

RoundsRemainingButLast == i_epoch < num_global_epochs - 1

RoundsRemaining == i_epoch < num_global_epochs

KeepLocalModels(old) == old

NewLocalModels(old) == <<>>

AllConnections == device_connections

DispatchTargets == device_connections_in_round

TerminateTargetsOfRound == device_connections_in_round

TerminateTargets == device_connections

DispatchedBaseModel == BaseModel

DispatchedModel == model

AggregationInputOfLosses == Values(local_losses)

AggregationInput == Values(local_models)

CollectionPendingAllButOne == Len(local_losses) < Len(device_connections_in_round) - 1

CollectionPendingWhileEmpty == Len(local_losses) = 0

CollectionPending == Len(local_losses) # Len(device_connections_in_round)

WaitHandlesOfRoster == Range(device_connections)

WaitHandles == Range(device_connections_in_round)

Ready(handles) == {h \in handles : to_server[h] # <<>>}

(***************************************************************************)
(* handle.send(): with a message that fits the pipe's buffer it returns at *)
(* once; with a larger one it returns only when the peer has received.     *)
(***************************************************************************)
ServerSending(w) ==
    /\ pc = "dispatch"
    /\ n_dispatched > 0
    /\ DispatchTargets[n_dispatched] = w
    /\ to_device[w] # <<>>

ServerSendReturned == ~blocking \/ ~(\E w \in Users : ServerSending(w))

DeviceSending(w) == to_server[w] # <<>>

DeviceSendReturned(w) == ~blocking \/ ~DeviceSending(w)

ResultKeyByPosition(result) ==
    device_connections_in_round[(Len(local_losses) % Len(device_connections_in_round)) + 1]

ResultKey(result) == class_to_idx[result.name]

(***************************************************************************)
(* Initial state: train_federated has been entered, nothing is created.    *)
(***************************************************************************)
Entered ==
    /\ num_users \in 1..MaxUsers
    /\ MAX_USERS_IN_ROUND \in (-1)..(MaxUsers + 1)
    /\ MAX_USERS_IN_ROUND <= num_users + 1
    /\ num_global_epochs \in 0..MaxEpochs
    /\ pc = "setup"
    /\ err = "none"
    /\ device_connections = <<>>
    /\ i_epoch = 0
    /\ model = BaseModel
    /\ loss_avg = RatOfInt(0)
    /\ users_in_round_ids = <<>>
    /\ device_connections_in_round = <<>>
    /\ n_dispatched = 0
    /\ local_models = <<>>
    /\ local_losses = <<>>
    /\ handles_ready = {}
    /\ n_terminated = 0
    /\ to_device = [w \in Users |-> <<>>]
    /\ to_server = [w \in Users |-> <<>>]
    /\ status = [w \in Users |-> "Idle"]
    /\ device_dataset = [w \in Users |-> <<>>]
    /\ training = [w \in Users |-> <<>>]
    /\ sigterm = [w \in Users |-> FALSE]
    /\ round_results = [w \in Users |-> <<>>]
    /\ models_received = [w \in Users |-> 0]

\* A run with a training trainer and messages that fit the pipe's buffer.
Init == trainer = "sgd" /\ blocking = FALSE /\ Entered

\* A run with the no-op trainer.
InitNoop == trainer = "noop" /\ blocking = FALSE /\ Entered

\* A run with messages larger than the pipe's buffer.
InitBlocking == trainer = "sgd" /\ blocking = TRUE /\ Entered

(***************************************************************************)
(* Setup: one pipe and one started device per class.                       *)
(***************************************************************************)
SetupDevice ==
    /\ pc = "setup"
    /\ Len(device_connections) < Len(SetupTargets)
    /\ LET device_name == SetupTargets[Len(device_connections) + 1]
           device_id == class_to_idx[device_name]
       IN  /\ device_connections' = KeysInOrder(Append(device_connections, device_id))
           /\ device_dataset' = [device_dataset EXCEPT ![device_id] = <<PartitionOf(device_id)>>]
           /\ status' = [status EXCEPT ![device_id] = "Running"]
    /\ UNCHANGED <<settingsVars, pc, err, i_epoch, model, loss_avg, users_in_round_ids,
                   device_connections_in_round, n_dispatched, local_models,
                   local_losses, handles_ready, n_terminated, to_device, to_server,
                   training, sigterm, round_results, models_received>>

SetupDone ==
    /\ pc = "setup"
    /\ Len(device_connections) = Len(SetupTargets)
    /\ pc' = "round"
    /\ UNCHANGED <<settingsVars, device_dataset, err, device_connections, i_epoch, model, loss_avg,
                   users_in_round_ids, device_connections_in_round, n_dispatched,
                   local_models, local_losses, handles_ready, n_terminated, to_device,
                   to_server, status, training, sigterm, round_results,
                   models_received>>

(***************************************************************************)
(* Start of a round: fresh result dicts, then the selection.               *)
(***************************************************************************)
RoundStart ==
    /\ pc = "round"
    /\ RoundsRemaining
    /\ local_models' = NewLocalModels(local_models)
    /\ local_losses' = <<>>
    /\ LET size == SampleSize(num_users, MAX_USERS_IN_ROUND)
       IN  IF ChoiceFails(num_users, size)
           THEN /\ pc' = "error"
                /\ err' = "ValueError"
                /\ UNCHANGED <<users_in_round_ids, device_connections_in_round,
                               n_dispatched, round_results, models_received>>
           ELSE /\ \E ids \in Choice(num_users, size) :
                      /\ users_in_round_ids' = ids
                      /\ device_connections_in_round' = KeysInOrder(ids)
                /\ pc' = "dispatch"
                /\ err' = err
                /\ n_dispatched' = 0
                /\ round_results' = [w \in Users |-> <<>>]
                /\ models_received' = [w \in Users |-> 0]
    /\ UNCHANGED <<settingsVars, device_dataset, device_connections, i_epoch, model, loss_avg,
                   handles_ready, n_terminated, to_device, to_server, status, training,
                   sigterm>>

RoundsDone ==
    /\ pc = "round"
    /\ ~RoundsRemaining
    /\ pc' = "terminate"
    /\ UNCHANGED <<settingsVars, device_dataset, err, device_connections, i_epoch, model, loss_avg,
                   users_in_round_ids, device_connections_in_round, n_dispatched,
                   local_models, local_losses, handles_ready, n_terminated, to_device,
                   to_server, status, training, sigterm, round_results,
                   models_received>>

(***************************************************************************)
(* Dispatch: the current model is sent to every device of the round.       *)
(***************************************************************************)
DispatchSend ==
    /\ pc = "dispatch"
    /\ ServerSendReturned
    /\ n_dispatched < Len(DispatchTargets)
    /\ LET device_id == DispatchTargets[n_dispatched + 1]
       IN  to_device' = [to_device EXCEPT
                            ![device_id] = Append(@, [model |-> DispatchedModel, round |-> i_epoch])]
    /\ n_dispatched' = n_dispatched + 1
    /\ UNCHANGED <<settingsVars, device_dataset, pc, err, device_connections, i_epoch, model, loss_avg,
                   users_in_round_ids, device_connections_in_round, local_models,
                   local_losses, handles_ready, n_terminated, to_server, status,
                   training, sigterm, round_results, models_received>>

DispatchDone ==
    /\ pc = "dispatch"
    /\ ServerSendReturned
    /\ n_dispatched >= Len(DispatchTargets)
    /\ pc' = "collect"
    /\ UNCHANGED <<settingsVars, device_dataset, err, device_connections, i_epoch, model, loss_avg,
                   users_in_round_ids, device_connections_in_round, n_dispatched,
                   local_models, local_losses, handles_ready, n_terminated, to_device,
                   to_server, status, training, sigterm, round_results,
                   models_received>>

(***************************************************************************)
(* Collection: wait on the handles of the round, receive from every ready  *)
(* one, record the result under the identity its name maps to.             *)
(***************************************************************************)
Wait ==
    /\ pc = "collect"
    /\ CollectionPending
    /\ Ready(WaitHandles) # {}
    /\ handles_ready' = Ready(WaitHandles)
    /\ pc' = "recv"
    /\ UNCHANGED <<settingsVars, device_dataset, err, device_connections, i_epoch, model, loss_avg,
                   users_in_round_ids, device_connections_in_round, n_dispatched,
                   local_models, local_losses, n_terminated, to_device, to_server,
                   status, training, sigterm, round_results, models_received>>

Recv ==
    /\ pc = "recv"
    /\ \E handle \in handles_ready :
          LET device_result == Head(to_server[handle])
              device_id == ResultKey(device_result)
          IN  /\ to_server' = [to_server EXCEPT ![handle] = Tail(@)]
              /\ local_models' = DictSet(local_models, device_id, device_result.model)
              /\ local_losses' = DictSet(local_losses, device_id, device_result.loss)
              /\ handles_ready' = handles_ready \ {handle}
              /\ pc' = IF handles_ready' = {} THEN "collect" ELSE "recv"
    /\ UNCHANGED <<settingsVars, device_dataset, err, device_connections, i_epoch, model, loss_avg,
                   users_in_round_ids, device_connections_in_round, n_dispatched,
                   n_terminated, to_device, status, training, sigterm, round_results,
                   models_received>>

CollectDone ==
    /\ pc = "collect"
    /\ ~CollectionPending
    /\ pc' = "aggregate"
    /\ UNCHANGED <<settingsVars, device_dataset, err, device_connections, i_epoch, model, loss_avg,
                   users_in_round_ids, device_connections_in_round, n_dispatched,
                   local_models, local_losses, handles_ready, n_terminated, to_device,
                   to_server, status, training, sigterm, round_results,
                   models_received>>

(***************************************************************************)
(* Aggregation: the average of the received models becomes the model, and  *)
(* the mean loss is reported. An empty list of models is an error.         *)
(***************************************************************************)
Aggregate ==
    /\ pc = "aggregate"
    /\ IF Len(AggregationInput) = 0
       THEN /\ pc' = "error"
            /\ err' = "InvalidArgument"
            /\ UNCHANGED <<model, loss_avg, i_epoch>>
       ELSE IF Len(local_losses) = 0
       THEN /\ pc' = "error"
            /\ err' = "ZeroDivisionError"
            /\ model' = federated_averaging(AggregationInput)
            /\ UNCHANGED <<loss_avg, i_epoch>>
       ELSE /\ model' = federated_averaging(AggregationInput)
            /\ loss_avg' = MeanLoss(local_losses)
            /\ i_epoch' = i_epoch + 1
            /\ pc' = "round"
            /\ err' = err
    /\ UNCHANGED <<settingsVars, device_dataset, device_connections, users_in_round_ids,
                   device_connections_in_round, n_dispatched, local_models,
                   local_losses, handles_ready, n_terminated, to_device, to_server,
                   status, training, sigterm, round_results, models_received>>

(***************************************************************************)
(* Shutdown: terminate() on the process of every connection, then return.  *)
(***************************************************************************)
Terminate ==
    /\ pc = "terminate"
    /\ n_terminated < Len(TerminateTargets)
    /\ LET device_id == TerminateTargets[n_terminated + 1]
       IN  sigterm' = [sigterm EXCEPT ![device_id] = TRUE]
    /\ n_terminated' = n_terminated + 1
    /\ UNCHANGED <<settingsVars, device_dataset, pc, err, device_connections, i_epoch, model, loss_avg,
                   users_in_round_ids, device_connections_in_round, n_dispatched,
                   local_models, local_losses, handles_ready, to_device, to_server,
                   status, training, round_results, models_received>>

Return ==
    /\ pc = "terminate"
    /\ n_terminated >= Len(TerminateTargets)
    /\ pc' = "done"
    /\ UNCHANGED <<settingsVars, device_dataset, err, device_connections, i_epoch, model, loss_avg,
                   users_in_round_ids, device_connections_in_round, n_dispatched,
                   local_models, local_losses, handles_ready, n_terminated, to_device,
                   to_server, status, training, sigterm, round_results,
                   models_received>>

(***************************************************************************)
(* The edge device: receive a model, train, send the result back under its *)
(* own name; stop when its process is terminated.                          *)
(***************************************************************************)
DeviceRecv(w) ==
    /\ status[w] = "Running"
    /\ DeviceSendReturned(w)
    /\ training[w] = <<>>
    /\ to_device[w] # <<>>
    /\ training' = [training EXCEPT ![w] = <<Head(to_device[w])>>]
    /\ to_device' = [to_device EXCEPT ![w] = Tail(@)]
    /\ models_received' = [models_received EXCEPT ![w] = @ + 1]
    /\ UNCHANGED <<settingsVars, device_dataset, coordVars, to_server, status, sigterm, round_results>>

DeviceTrainSend(w) ==
    /\ status[w] = "Running"
    /\ training[w] # <<>>
    /\ LET received == training[w][1]
           trained == Train(received.model, w)
           device_result == [name |-> idx_to_class[w], model |-> trained.model,
                             loss |-> trained.loss, round |-> received.round]
       IN  /\ to_server' = [to_server EXCEPT ![w] = Append(@, device_result)]
           /\ round_results' = [round_results EXCEPT ![w] = Append(@, device_result)]
    /\ training' = [training EXCEPT ![w] = <<>>]
    /\ UNCHANGED <<settingsVars, device_dataset, coordVars, to_device, status, sigterm, models_received>>

DeviceStop(w) ==
    /\ status[w] = "Running"
    /\ sigterm[w]
    /\ status' = [status EXCEPT ![w] = "Stopped"]
    /\ UNCHANGED <<settingsVars, device_dataset, coordVars, to_device, to_server, training, sigterm,
                   round_results, models_received>>

(***************************************************************************)
(* Abnormal termination of a device's process. The server's process keeps  *)
(* its own reference to the device's end of the pipe (the EdgeDevice       *)
(* object it built), so the server's end never sees the pipe closed.       *)
(***************************************************************************)
DeviceCrash(w) ==
    /\ status[w] = "Running"
    /\ \A v \in Users : status[v] # "Stopped"
    /\ ~(blocking /\ DeviceSending(w))
    /\ status' = [status EXCEPT ![w] = "Stopped"]
    /\ UNCHANGED <<settingsVars, device_dataset, coordVars, to_device, to_server,
                   training, sigterm, round_results, models_received>>

Coordinator ==
    \/ SetupDevice
    \/ SetupDone
    \/ RoundStart
    \/ RoundsDone
    \/ DispatchSend
    \/ DispatchDone
    \/ Wait
    \/ Recv
    \/ CollectDone
    \/ Aggregate
    \/ Terminate
    \/ Return

Device(w) ==
    \/ DeviceRecv(w)
    \/ DeviceTrainSend(w)
    \/ DeviceStop(w)

Next ==
    \/ Coordinator
    \/ \E w \in Users : Device(w)

Spec == Init /\ [][Next]_vars

(***************************************************************************)
(* Scheduling at shutdown: the coordinator goes on through its             *)
(* termination loop, and a running process that was sent SIGTERM exits.    *)
(***************************************************************************)
ShutdownFairSpec ==
    /\ Spec
    /\ WF_vars(Terminate)
    /\ WF_vars(\E w \in Users : DeviceStop(w))

(***************************************************************************)
(* Scheduling of a whole run: while some process can take a step, a step   *)
(* is eventually taken.                                                    *)
(***************************************************************************)
FairSpec == Spec /\ WF_vars(Next)

NoopSpec == InitNoop /\ [][Next]_vars

BlockingSpec == InitBlocking /\ [][Next]_vars

(***************************************************************************)
(* Runs in which one device process may terminate abnormally.              *)
(***************************************************************************)
NextOrCrash ==
    \/ Next
    \/ \E w \in Users : DeviceCrash(w)

CrashSpec == Init /\ [][NextOrCrash]_vars

(***************************************************************************)
(* Properties.                                                             *)
(***************************************************************************)
InRound == Range(device_connections_in_round)

InFlight(w) == to_device[w] \o training[w] \o to_server[w]

SelectionMade == pc \in {"dispatch", "collect", "recv", "aggregate"} \/ i_epoch > 0

\* C1: in every round and for every arrival order, the coordinator leaves the
\* collection loop only with a result recorded for every selected device, it
\* leaves as soon as the recorded identities equal the selected set (no
\* further wait, nothing left to receive), and every result is recorded under
\* the identity its message carries, with that device's model and loss.
C1_CollectsEverySelected ==
    /\ pc = "aggregate" =>
          /\ Keys(local_losses) = InRound
          /\ Keys(local_models) = InRound
    /\ pc = "recv" => Keys(local_losses) # InRound
    /\ (pc = "collect" /\ Keys(local_losses) = InRound) => ~ENABLED Wait
    /\ pc \in {"collect", "recv", "aggregate"} =>
          \A d \in Keys(local_models) :
              /\ d \in Keys(local_losses)
              /\ Len(round_results[d]) = 1
              /\ round_results[d][1].name = idx_to_class[d]
              /\ Get(local_models, d) = round_results[d][1].model
              /\ Get(local_losses, d) = round_results[d][1].loss

C1_Witness ==
    /\ pc = "aggregate"
    /\ Len(device_connections_in_round) >= 2
    /\ [i \in 1..Len(local_models) |-> local_models[i].key] # device_connections_in_round

\* C2: for 1 <= k <= R, the selection of a round is exactly k pairwise
\* distinct identities, each a key of the roster built at setup.
C2_SelectionIsKDistinctRosterKeys ==
    (1 <= MAX_USERS_IN_ROUND /\ MAX_USERS_IN_ROUND <= num_users /\ SelectionMade) =>
        /\ Len(users_in_round_ids) = MAX_USERS_IN_ROUND
        /\ \A i, j \in 1..Len(users_in_round_ids) :
              i # j => users_in_round_ids[i] # users_in_round_ids[j]
        /\ \A i \in 1..Len(users_in_round_ids) :
              users_in_round_ids[i] \in Range(device_connections)
        /\ Cardinality(InRound) = MAX_USERS_IN_ROUND

C2_Witness ==
    /\ pc = "dispatch"
    /\ num_users = 3
    /\ MAX_USERS_IN_ROUND = 2
    /\ Len(users_in_round_ids) = 2

\* C3: rounds are strictly sequential: every model in flight, being trained
\* or reported belongs to the round in progress, and whenever a round is
\* about to start, is being aggregated, or the run is shutting down, nothing
\* of any round is in flight or being trained.
C3_RoundsSequential ==
    /\ \A w \in Users : \A i \in 1..Len(InFlight(w)) : InFlight(w)[i].round = i_epoch
    /\ pc \in {"round", "aggregate", "terminate", "done"} =>
          \A w \in Users : InFlight(w) = <<>>

C3_Witness ==
    /\ pc = "collect"
    /\ i_epoch = 1
    /\ \E w \in Users : training[w] # <<>> /\ training[w][1].round = 1

\* C4: in every round a device that was not selected receives no model and
\* sends no result; a selected device receives at most one model and sends
\* at most one result, exactly one by the time the round is aggregated.
C4_OnlySelectedParticipate ==
    /\ \A w \in Users \ InRound :
          /\ models_received[w] = 0
          /\ round_results[w] = <<>>
          /\ InFlight(w) = <<>>
    /\ \A w \in InRound :
          /\ models_received[w] <= 1
          /\ Len(round_results[w]) <= 1
    /\ pc = "aggregate" =>
          \A w \in InRound : models_received[w] = 1 /\ Len(round_results[w]) = 1

C4_Witness ==
    /\ pc = "aggregate"
    /\ InRound # {}
    /\ Users \ InRound # {}
    /\ i_epoch = 1

\* C5: the model held after a round's aggregation is the unweighted mean of
\* exactly the models reported in that round by that round's selected
\* devices, one each: their sum equals the model times their number.
C5_ModelIsMeanOfRoundReports ==
    (pc \in {"round", "terminate", "done"} /\ i_epoch > 0) =>
        /\ \A w \in InRound :
              Len(round_results[w]) = 1 /\ round_results[w][1].round = i_epoch - 1
        /\ LET k == Len(device_connections_in_round)
               reports == [i \in 1..k |->
                              round_results[device_connections_in_round[i]][1].model]
           IN  /\ k > 0
               /\ RatSum(reports) = Rat(model[1] * k, model[2])

C5_Witness ==
    /\ pc = "round"
    /\ i_epoch = 2
    /\ num_users = 3
    /\ Len(device_connections_in_round) = 2

AllStopped == \A w \in Users : status[w] = "Stopped"

\* C6: when train_federated returns, terminate() has been called on every
\* device of the roster, selected in some round or not, and once shutdown
\* has begun every device eventually reaches Stopped.
C6_EveryDeviceEventuallyStopped ==
    /\ [](pc = "done" => (Range(device_connections) = Users /\ \A w \in Users : sigterm[w]))
    /\ (pc = "terminate") ~> AllStopped

C6_Witness ==
    /\ pc = "done"
    /\ i_epoch >= 1
    /\ Users \ InRound # {}
    /\ AllStopped

\* C7: in the state in which train_federated returns the final model, every
\* device of the roster is already Stopped.
C7_StoppedAtReturn == pc = "done" => AllStopped

\* C8: on an early abort every started device is signalled to stop.
C8_AbortStopsDevices ==
    pc = "error" => \A w \in Users : status[w] # "Idle" => sigterm[w]

\* C9: with quorum_size greater than the roster size the selection of the
\* first round fails with an error, before any model is sent and before any
\* aggregation; the quorum is never reduced to the roster size.
C9_OversizedQuorumFailsAtSelection ==
    MAX_USERS_IN_ROUND > num_users =>
        /\ pc \in {"setup", "round", "error", "terminate", "done"}
        /\ pc \in {"terminate", "done"} => num_global_epochs = 0
        /\ pc = "error" => err = "ValueError"
        /\ \A w \in Users : InFlight(w) = <<>> /\ models_received[w] = 0
        /\ users_in_round_ids = <<>>
        /\ device_connections_in_round = <<>>
        /\ i_epoch = 0
        /\ model = BaseModel

C9_Witness ==
    /\ MAX_USERS_IN_ROUND > num_users
    /\ pc = "error"
    /\ err = "ValueError"

\* C10: with a quorum size of 0 or less the selection fails, so the
\* coordinator never goes on to dispatch, collection or aggregation.
C10_NonPositiveQuorumFailsAtSelection ==
    MAX_USERS_IN_ROUND <= 0 => pc \notin {"dispatch", "collect", "recv", "aggregate"}

\* C11: with a trainer that returns the received model unchanged with loss
\* 0, the coordinator's model equals the base model after any number of
\* rounds and for every quorum, and the mean loss of every round is 0.
C11_NoopTrainerKeepsBaseModel ==
    trainer = "noop" =>
        /\ model = BaseModel
        /\ loss_avg = RatOfInt(0)
        /\ \A w \in Users : \A i \in 1..Len(round_results[w]) :
              round_results[w][i].model = BaseModel

C11_Witness ==
    /\ trainer = "noop"
    /\ pc = "round"
    /\ i_epoch = 2
    /\ Len(device_connections_in_round) >= 2

MissingResult == \E w \in InRound : round_results[w] = <<>>

Stalled ==
    /\ pc \in {"dispatch", "collect", "recv"}
    /\ \E w \in InRound : status[w] = "Stopped" /\ round_results[w] = <<>>

\* C12: while a selected device has not sent its result the coordinator is
\* in the dispatch or collection of that round, and once a selected device
\* has stopped without sending, the coordinator stays there forever: no
\* aggregation of the partial results, no later round, no shutdown.
C12_MissingResultStallsRound ==
    /\ [](MissingResult => pc \in {"dispatch", "collect", "recv"})
    /\ [][Stalled => Stalled']_vars

C12_Witness ==
    /\ pc = "collect"
    /\ Len(device_connections_in_round) >= 2
    /\ Len(local_losses) = Len(device_connections_in_round) - 1
    /\ \E w \in InRound : status[w] = "Stopped" /\ round_results[w] = <<>>

ValidConfig == 1 <= MAX_USERS_IN_ROUND /\ MAX_USERS_IN_ROUND <= num_users

Completed ==
    /\ pc = "done"
    /\ err = "none"
    /\ i_epoch = num_global_epochs
    /\ \A w \in Users : sigterm[w]
    /\ num_global_epochs = 0 => model = BaseModel
    /\ num_global_epochs > 0 =>
          /\ Keys(local_models) = InRound
          /\ model = federated_averaging(Values(local_models))

\* C13: with 1 <= quorum_size <= roster size and fair scheduling, the run
\* eventually completes exactly num_global_epochs rounds, terminates every
\* device and returns the model of the last aggregation (the base model
\* when there are no rounds).
C13_ValidRunCompletes ==
    /\ [](pc = "done" => i_epoch = num_global_epochs)
    /\ ValidConfig ~> Completed

C13_Witness ==
    /\ Completed
    /\ i_epoch = 2
    /\ num_users = 3
    /\ MAX_USERS_IN_ROUND = 2

\* C14: once setup is over the roster has exactly one started device per
\* class, each with a partition of its own, its key set is the set of
\* partition owners, and no round and no shutdown step changes it.
C14_RosterFixedAfterSetup ==
    /\ [](pc # "setup" =>
            /\ Len(device_connections) = Len(classes)
            /\ Range(device_connections) = {w \in Users : device_dataset[w] # <<>>}
            /\ Range(device_connections) = Users
            /\ \A w \in Users : status[w] # "Idle"
            /\ \A w, v \in Users : w # v => device_dataset[w] # device_dataset[v])
    /\ [][pc # "setup" =>
            /\ device_connections' = device_connections
            /\ device_dataset' = device_dataset]_vars

C14_Witness ==
    /\ pc = "done"
    /\ num_users = 3
    /\ i_epoch = 2
    /\ MAX_USERS_IN_ROUND = 1
    /\ Len(device_connections) = 3

\* C15: within a round the send to the next selected device never has to
\* wait for an earlier-dispatched device to receive its model.
C15_DispatchNeverWaits ==
    (pc = "dispatch" /\ n_dispatched < Len(DispatchTargets)) => ENABLED DispatchSend

\* C16: a result waits unreceived only on the channel of the selected device
\* that produced it, under that device's name, in the round it belongs to,
\* at most one per channel and not yet recorded; when the collection of a
\* round has ended, when the next dispatch begins and at shutdown no
\* unreceived result remains, and every selected device's one result has
\* been recorded.
C16_ResultsConsumedInTheirRound ==
    /\ \A w \in Users :
          /\ Len(to_server[w]) <= 1
          /\ to_server[w] # <<>> =>
                /\ to_server[w][1].name = idx_to_class[w]
                /\ to_server[w][1].round = i_epoch
                /\ to_server[w] = round_results[w]
                /\ w \in InRound
                /\ w \notin Keys(local_losses)
    /\ (pc \in {"aggregate", "round", "terminate", "done"}
            \/ (pc = "dispatch" /\ n_dispatched = 0)) =>
          \A w \in Users : to_server[w] = <<>>
    /\ pc = "aggregate" =>
          \A w \in InRound : Len(round_results[w]) = 1 /\ w \in Keys(local_models)

C16_Witness ==
    /\ pc = "dispatch"
    /\ n_dispatched = 0
    /\ i_epoch = 1
    /\ Len(device_connections_in_round) = 2
    /\ \A w \in Users : to_server[w] = <<>>

Closed(w) == status[w] = "Stopped" /\ round_results[w] = <<>>

\* C17: when a selected device has stopped abnormally before sending its
\* result, the coordinator in the collection loop is not left hanging: it
\* can take a step (towards the fatal error).
C17_ClosedEndpointDoesNotHang ==
    (pc = "collect" /\ \E w \in InRound : Closed(w)) => ENABLED Coordinator

Outstanding == InRound \ Keys(local_losses)

\* C18 as stated: the channels passed to wait are exactly those of the
\* selected devices that have not yet reported.
C18_WaitSetIsOutstanding ==
    (pc = "collect" /\ CollectionPending) => WaitHandles = Outstanding

\* C18 as amended: the channels passed to wait are those of all devices
\* selected for the round; the ones wait returns as ready are channels of
\* selected devices that have not yet reported, each holding one message,
\* and waiting stops when no selected device is outstanding.
C18_WaitSetIsSelectedReadyIsOutstanding ==
    /\ (pc = "collect" /\ CollectionPending) =>
          /\ WaitHandles = InRound
          /\ Ready(WaitHandles) \subseteq Outstanding
    /\ pc = "recv" =>
          /\ handles_ready # {}
          /\ handles_ready \subseteq Outstanding
          /\ \A h \in handles_ready : Len(to_server[h]) = 1
    /\ pc = "collect" => (CollectionPending <=> Outstanding # {})

C18_Witness ==
    /\ pc = "collect"
    /\ CollectionPending
    /\ Keys(local_losses) # {}
    /\ Ready(WaitHandles) # {}

\* C19: every model on its way to a device or being trained is the
\* coordinator's current model, which is the base model until the first
\* aggregation; the current model changes only in the aggregation step that
\* completes a round.
C19_SameSnapshotModelChangesAtAggregation ==
    /\ [](\A w \in Users : \A i \in 1..Len(to_device[w] \o training[w]) :
              (to_device[w] \o training[w])[i].model = model)
    /\ [](i_epoch = 0 => model = BaseModel)
    /\ [][model' # model => (pc = "aggregate" /\ i_epoch' = i_epoch + 1)]_vars

C19_Witness ==
    /\ pc = "collect"
    /\ i_epoch = 1
    /\ model # BaseModel
    /\ \E w, v \in InRound : w # v /\ to_device[w] # <<>> /\ training[v] # <<>>

\* C20: with blocking sends there is no state in which the coordinator is
\* blocked sending a model to a device that is blocked sending a result:
\* the running device it sends to can always receive.
C20_DispatchThenCollectCannotDeadlock ==
    blocking =>
        \A w \in Users :
            ServerSending(w) =>
                /\ ~DeviceSending(w)
                /\ status[w] = "Running" => ENABLED DeviceRecv(w)

C20_Witness ==
    /\ blocking
    /\ i_epoch = 1
    /\ MAX_USERS_IN_ROUND = num_users
    /\ num_users >= 2
    /\ \E w \in Users : ServerSending(w) /\ n_dispatched = 2

====
